---- MODULE Spec2Model ----
(***************************************************************************)
(* Model of semantic-unit-based/models/rnn.py: the recurrent encoder with  *)
(* its dilated convolutional refinement, the recurrent decoder and the     *)
(* stacked GRU / LSTM step functions.                                      *)
(*                                                                         *)
(* Tensors are modelled by their axis list (name and size per axis) and    *)
(* by their data indexed along the non-feature axes in axis order; one     *)
(* feature vector of width hidden_size is one residue modulo Modulus.      *)
(* The encoder is modelled in evaluation mode (nn.Dropout and              *)
(* nn.AlphaDropout are the identity); the decoder's inter-layer dropout    *)
(* is modelled with an explicit keep/drop draw per application.            *)
(***************************************************************************)
EXTENDS Integers, Sequences, FiniteSets, TLC

\* ---- bounds of the model ----
MaxT == 8
BatchSize == 2
MaxLayers == 2
MaxSteps == 2
Modulus == 5
hidden_size == 8

Tokens == {1, 2}
Cells == {"gru", "lstm"}
AttentionModes == {"None", "bahdanau", "luong", "luong_gate", "dot"}
RecognizedAttention == {"None", "bahdanau", "luong", "luong_gate"}
DecLayerCounts == {1, 2, 3}

VARIABLES config, inputs, lengths, enc_pc, enc_module, enc_out,
          dec_config, dec_pc, dec_module, dec_state, dec_conv, dec_call,
          dec_out, dec_steps

enc_vars == <<config, inputs, lengths, enc_pc, enc_module, enc_out>>
dec_vars == <<dec_config, dec_pc, dec_module, dec_state, dec_conv, dec_call,
              dec_out, dec_steps>>
vars == <<config, inputs, lengths, enc_pc, enc_module, enc_out,
          dec_config, dec_pc, dec_module, dec_state, dec_conv, dec_call,
          dec_out, dec_steps>>

\* ---- helpers ----
Min(a, b) == IF a < b THEN a ELSE b

RECURSIVE Concat(_)
Concat(ss) == IF ss = <<>> THEN <<>> ELSE Head(ss) \o Concat(Tail(ss))

\* the explicit tuple of a sequence-valued function, and of a matrix
Tup(f) == f \o <<>>
Mat(f) == Tup([i \in 1..Len(f) |-> Tup(f[i])])

Reverse(s) == Tup([i \in 1..Len(s) |-> s[Len(s) + 1 - i]])

RECURSIVE SumSeq(_)
SumSeq(s) == IF s = <<>> THEN 0 ELSE Head(s) + SumSeq(Tail(s))

\* ---- torch primitives used by the module ----

\* nn.Embedding: a table lookup; every token has a non-zero vector
embedding(tok) == (tok + 1) % Modulus

EmbedAll(x) == Mat([t \in 1..Len(x) |-> [b \in 1..Len(x[t]) |-> embedding(x[t][b])]])

\* pack_padded_sequence (time-major, lengths sorted decreasing): keeps, for
\* each time step, only the examples whose true length reaches that step
pack(x, lens) ==
  LET batch_sizes == Tup([t \in 1..lens[1] |->
                            Cardinality({b \in 1..Len(lens) : lens[b] >= t})])
  IN [data |-> Concat(Tup([t \in 1..lens[1] |-> SubSeq(x[t], 1, batch_sizes[t])])),
      batch_sizes |-> batch_sizes]

\* pad_packed_sequence: back to a padded tensor of time-length max(lengths),
\* zero at every position past an example's true length
unpack(p) ==
  LET bs == p.batch_sizes
      Offset(t) == SumSeq(SubSeq(bs, 1, t - 1))
  IN [padded |-> Mat([t \in 1..Len(bs) |-> [b \in 1..bs[1] |->
                        IF b <= bs[t] THEN p.data[Offset(t) + b] ELSE 0]]),
      lengths |-> Tup([b \in 1..bs[1] |->
                         Cardinality({t \in 1..Len(bs) : bs[t] >= b})])]

\* nn.GRUCell / one direction of one nn.GRU layer, parameter set k
GRUCell(k, x, h) == (2 * x + 3 * h + k) % Modulus

\* nn.LSTMCell / one direction of one nn.LSTM layer, parameter set k
LSTMCell(k, x, hc) ==
  LET c1 == (x + 2 * hc.c + k) % Modulus
  IN [h |-> (3 * c1 + hc.h + x) % Modulus, c |-> c1]

CellStep(cell, k, x, s) ==
  IF cell = "gru" THEN [h |-> GRUCell(k, x, s.h), c |-> 0]
  ELSE LSTMCell(k, x, s)

\* the states of one direction of one recurrent layer after each position of
\* the sequence it is given, from state s: one state update per position
RECURSIVE RunStates(_, _, _, _)
RunStates(cell, k, xs, s) ==
  IF xs = <<>> THEN <<>>
  ELSE LET s1 == CellStep(cell, k, Head(xs), s)
       IN <<s1>> \o RunStates(cell, k, Tail(xs), s1)

\* outputs per position and final state of one direction, from its states st
DirectionResult(st, reverse) ==
  [outs |-> IF reverse THEN Reverse(Tup([t \in 1..Len(st) |-> st[t].h]))
            ELSE Tup([t \in 1..Len(st) |-> st[t].h]),
   final |-> st[Len(st)]]

\* one direction of one recurrent layer over one example's padded sequence,
\* from the zero state; the reverse direction starts at the last position
RunDirection(cell, k, xs, reverse) ==
  DirectionResult(RunStates(cell, k, IF reverse THEN Reverse(xs) ELSE xs,
                            [h |-> 0, c |-> 0]),
                  reverse)

\* what one layer returns per position, its final states, and what it hands
\* to the next layer (both directions concatenated when bidirectional)
LayerOuts(bidir, fwd, bwd) ==
  IF bidir THEN Tup([t \in 1..Len(fwd.outs) |-> <<fwd.outs[t], bwd.outs[t]>>])
  ELSE fwd.outs
LayerFinals(bidir, fwd, bwd) ==
  IF bidir THEN <<fwd.final, bwd.final>> ELSE <<fwd.final>>
LayerNext(bidir, fwd, bwd) ==
  IF bidir
  THEN Tup([t \in 1..Len(fwd.outs) |-> (fwd.outs[t] + 2 * bwd.outs[t]) % Modulus])
  ELSE fwd.outs

PrependFinals(finals, rest) == [top |-> rest.top, finals |-> finals \o rest.finals]

\* layers l..L of nn.GRU / nn.LSTM over one example
RECURSIVE RunLayers(_, _, _, _, _)
LayersFrom(cell, bidir, l, L, fwd, bwd) ==
  IF l = L
  THEN [top |-> LayerOuts(bidir, fwd, bwd), finals |-> LayerFinals(bidir, fwd, bwd)]
  ELSE PrependFinals(LayerFinals(bidir, fwd, bwd),
                     RunLayers(cell, bidir, l + 1, L, LayerNext(bidir, fwd, bwd)))

RunLayers(cell, bidir, l, L, xs) ==
  LayersFrom(cell, bidir, l, L,
             RunDirection(cell, 2 * l - 1, xs, FALSE),
             RunDirection(cell, 2 * l, xs, TRUE))

\* the per-example results res gathered into (time, batch) outputs and a
\* final state with num_layers * num_directions entries
rnn_collect(res, T) ==
  [outputs |-> Mat([t \in 1..T |-> [b \in 1..Len(res) |-> res[b].top[t]]]),
   h_n |-> Mat([j \in 1..Len(res[1].finals) |->
                  [b \in 1..Len(res) |-> res[b].finals[j].h]]),
   c_n |-> Mat([j \in 1..Len(res[1].finals) |->
                  [b \in 1..Len(res) |-> res[b].finals[j].c]])]

\* self.rnn(embeds) on a padded (time, batch) tensor
rnn(m, x) ==
  rnn_collect(Tup([b \in 1..Len(x[1]) |->
                     RunLayers(m.cell, m.bidirectional, 1, m.num_layers,
                               Tup([t \in 1..Len(x) |-> x[t][b]]))]),
              Len(x))

\* ---- tensors with named axes ----
AxisNames(x) == [i \in 1..Len(x.dims) |-> x.dims[i][1]]
Size(x, name) == LET i == CHOOSE i \in 1..Len(x.dims) : x.dims[i][1] = name
                 IN x.dims[i][2]
NonFeature(d) == SelectSeq(d, LAMBDA a : a[1] # "hidden")

\* Tensor.transpose(a, b), axes numbered from 0
transpose(x, a, b) ==
  LET d == [i \in 1..Len(x.dims) |->
              IF i = a + 1 THEN x.dims[b + 1]
              ELSE IF i = b + 1 THEN x.dims[a + 1] ELSE x.dims[i]]
      n1 == NonFeature(d)[1][2]
      n2 == NonFeature(d)[2][2]
  IN [dims |-> d,
      data |-> IF NonFeature(d) = NonFeature(x.dims) THEN x.data
               ELSE Mat([i \in 1..n1 |-> [j \in 1..n2 |-> x.data[j][i]]])]

\* nn.Conv1d(kernel_size=3, padding=1, dilation=d) on (batch, channels, length)
kernel_size == 3
padding == 1
Dilations == <<1, 2, 3>>

Conv1dLen(L, d) == L + 2 * padding - d * (kernel_size - 1)

Conv1d(x, d) ==
  LET L == x.dims[3][2]
      Lout == Conv1dLen(L, d)
      Xp(row, j) == IF j <= padding \/ j > L + padding THEN 0 ELSE row[j - padding]
  IN [dims |-> <<x.dims[1], x.dims[2], <<x.dims[3][1], Lout>>>>,
      data |-> Mat([n \in 1..x.dims[1][2] |-> [l \in 1..Lout |->
                  (Xp(x.data[n], l) + 2 * Xp(x.data[n], l + d)
                     + 3 * Xp(x.data[n], l + 2 * d) + 1) % Modulus]])]

\* nn.SELU, elementwise
SELU(x) == [dims |-> x.dims,
            data |-> Mat([i \in 1..Len(x.data) |->
                        [j \in 1..Len(x.data[i]) |-> (2 * x.data[i][j] + 1) % Modulus]])]
\* nn.AlphaDropout(p=0.05) in evaluation mode
AlphaDropout(x) == x

\* self.dconv: Conv1d, SELU, AlphaDropout for each dilation in turn; a stage
\* whose padded input is shorter than its dilated kernel raises
RECURSIVE dconv_from(_, _)
dconv_from(x, ds) ==
  IF ds = <<>> THEN [ok |-> TRUE, t |-> x]
  ELSE IF Conv1dLen(x.dims[3][2], Head(ds)) < 1 THEN [ok |-> FALSE, t |-> x]
  ELSE dconv_from(AlphaDropout(SELU(Conv1d(x, Head(ds)))), Tail(ds))

dconv(m, x) == dconv_from(x, m.dilations)

\* state[0][::2]
Stride2(s) == Tup([i \in 1..((Len(s) + 1) \div 2) |-> s[2 * i - 1]])

\* mutant: the LSTM state is truncated to the first dec_num_layers entries
reduce_state_first(cfg, r) ==
  [h |-> SubSeq(r.h_n, 1, Min(cfg.dec_num_layers, Len(r.h_n))),
   c |-> IF cfg.cell = "gru" THEN <<>>
         ELSE SubSeq(r.c_n, 1, Min(cfg.dec_num_layers, Len(r.c_n)))]

\* the reduction of the recurrent network's final state (lines 47-50)
reduce_state(cfg, r) ==
  IF cfg.cell = "gru"
  THEN [h |-> SubSeq(r.h_n, 1, Min(cfg.dec_num_layers, Len(r.h_n))), c |-> <<>>]
  ELSE [h |-> Stride2(r.h_n), c |-> Stride2(r.c_n)]

\* mutant: the embeddings are handed on without the pack / unpack round trip
encoder_embeds_unpacked(inp, lens) == EmbedAll(inp)

\* the padded embeddings the recurrent network is run on (lines 36-37)
encoder_embeds(inp, lens) == unpack(pack(EmbedAll(inp), lens)).padded

NoTensor == [dims |-> <<>>, data |-> <<>>]
NoState == [h |-> <<>>, c |-> <<>>]

\* outputs of self.rnn as a (time, batch, num_directions * hidden) tensor
rnn_outputs(m, r) ==
  [dims |-> <<<<"time", Len(r.outputs)>>, <<"batch", Len(r.outputs[1])>>,
              <<"hidden", (IF m.bidirectional THEN 2 ELSE 1) * m.hidden_size>>>>,
   data |-> r.outputs]

\* lines 40-41: the two direction halves summed when bidirectional
fold_outputs(m, raw) ==
  IF m.config.bidirectional
  THEN [dims |-> <<raw.dims[1], raw.dims[2], <<"hidden", m.hidden_size>>>>,
        data |-> Mat([t \in 1..Len(raw.data) |-> [b \in 1..Len(raw.data[t]) |->
                    (raw.data[t][b][1] + raw.data[t][b][2]) % Modulus]])]
  ELSE raw

\* line 45: conv.transpose(1, 2) of what self.dconv returned
conv_back(c) == [ok |-> c.ok, t |-> IF c.ok THEN transpose(c.t, 1, 2) ELSE NoTensor]

\* lines 43-45
conv_context(m, outputs) ==
  conv_back(dconv(m, transpose(transpose(outputs, 0, 1), 1, 2)))

\* line 52, or the error self.dconv raised
encoder_return(outputs, state, conv) ==
  IF ~conv.ok
  THEN [status |-> "error", outputs |-> NoTensor, state |-> NoState, conv |-> NoTensor]
  ELSE [status |-> "ok", outputs |-> outputs, state |-> state, conv |-> conv.t]

encoder_refine(m, outputs, state) ==
  encoder_return(outputs, state, conv_context(m, outputs))

\* lines 40-52, from the result r of self.rnn
encoder_after_rnn(m, r) ==
  encoder_refine(m, fold_outputs(m, rnn_outputs(m, r)), reduce_state(m.config, r))

\* rnn_encoder.forward
rnn_encoder_forward(m, inp, lens) ==
  encoder_after_rnn(m, rnn(m, encoder_embeds(inp, lens)))

\* ---- encoder state machine ----
Configs == {c \in [cell : Cells, bidirectional : BOOLEAN,
                   enc_num_layers : 1..MaxLayers, dec_num_layers : 1..MaxLayers] :
              c.enc_num_layers >= c.dec_num_layers}

\* true lengths of a batch, sorted decreasing as pack() requires
LengthsFor(T) == {l \in [1..BatchSize -> 1..T] :
                    \A b \in 1..BatchSize - 1 : l[b] >= l[b + 1]}

\* a right-padded (time, batch) batch of token ids: content alternates along
\* time and batch, every padding position holds the token pad
Batch(T, lens, pad) ==
  Mat([t \in 1..T |-> [b \in 1..BatchSize |->
     IF t <= lens[b] THEN ((t + b) % 2) + 1 ELSE pad]])

NoEncOut == [status |-> "none", outputs |-> NoTensor, state |-> NoState, conv |-> NoTensor]
NoEncModule == [cell |-> "none", num_layers |-> 0, bidirectional |-> FALSE,
                hidden_size |-> 0, dilations |-> <<>>,
                config |-> [cell |-> "none", bidirectional |-> FALSE,
                            enc_num_layers |-> 0, dec_num_layers |-> 0]]

NoWeights == [none |-> TRUE, w |-> <<>>]
NoCell == [status |-> "none", output |-> 0, h |-> <<>>, c |-> <<>>, drops |-> <<>>]
NoDecOut == [status |-> "none", output |-> <<>>, state |-> NoState,
             attn_weights |-> NoWeights, cell |-> NoCell]
NoDecModule == [rnn |-> "none", num_layers |-> 0, layers |-> <<>>,
                attention |-> "unset",
                config |-> [cell |-> "none", num_layers |-> 0, attention |-> "None",
                            use_attention |-> FALSE]]
NoCall == [input |-> 0, state |-> NoState, conv |-> <<>>, draws |-> <<>>]

DecIdle ==
  /\ dec_config = NoDecModule.config
  /\ dec_pc = "idle"
  /\ dec_module = NoDecModule
  /\ dec_state = NoState
  /\ dec_conv = <<>>
  /\ dec_call = NoCall
  /\ dec_out = NoDecOut
  /\ dec_steps = 0

InitEncoder ==
  /\ config \in Configs
  /\ \E T \in 1..MaxT : \E lens \in LengthsFor(T) : \E pad \in Tokens :
        /\ lengths = lens
        /\ inputs = Batch(T, lens, pad)
  /\ enc_pc = "start"
  /\ enc_module = NoEncModule
  /\ enc_out = NoEncOut
  /\ DecIdle

\* rnn_encoder.__init__
EncoderConstruct ==
  /\ enc_pc = "start"
  /\ enc_module' = [cell |-> IF config.cell = "gru" THEN "gru" ELSE "lstm",
                    num_layers |-> config.enc_num_layers,
                    bidirectional |-> config.bidirectional,
                    hidden_size |-> hidden_size,
                    dilations |-> Dilations,
                    config |-> config]
  /\ enc_pc' = "constructed"
  /\ UNCHANGED <<config, inputs, lengths, enc_out>>
  /\ UNCHANGED dec_vars

\* one call of rnn_encoder.forward(inputs, lengths)
EncoderForward ==
  /\ enc_pc = "constructed"
  /\ enc_out' = rnn_encoder_forward(enc_module, inputs, lengths)
  /\ enc_pc' = IF enc_out'.status = "ok" THEN "encoded" ELSE "error"
  /\ UNCHANGED <<config, inputs, lengths, enc_module>>
  /\ UNCHANGED dec_vars

NextEncoder == EncoderConstruct \/ EncoderForward

SpecEncoder == InitEncoder /\ [][NextEncoder]_vars

\* ---- stacked recurrent cells ----

\* nn.Dropout in training mode: the i-th application of a step keeps or
\* zeroes its input according to the i-th draw
Dropout(x, draws, i) == IF i \in DOMAIN draws /\ ~draws[i] THEN 0 ELSE x

\* mutant: dropout after every layer, the last included
RECURSIVE StackedGRU_loop_dropout_all(_, _, _, _, _, _, _)
StackedGRU_loop_dropout_all(m, i, input, h_0, draws, h_1, drops) ==
  IF i > Len(m.layers)
  THEN [status |-> "ok", output |-> input, h |-> h_1, c |-> <<>>, drops |-> drops]
  ELSE IF i > Len(h_0)
  THEN [status |-> "error", output |-> 0, h |-> <<>>, c |-> <<>>, drops |-> drops]
  ELSE LET h_1_i == GRUCell(m.layers[i], input, h_0[i])
       IN StackedGRU_loop_dropout_all(m, i + 1, Dropout(h_1_i, draws, i), h_0, draws,
                                      Append(h_1, h_1_i), Append(drops, i))

\* StackedGRU.forward, the loop from layer i (numbered from 1) on; h_1 and
\* drops accumulate the new hidden vectors and the layers whose output went
\* through dropout; indexing h_0 past its end raises
RECURSIVE StackedGRU_loop(_, _, _, _, _, _, _)
StackedGRU_loop(m, i, input, h_0, draws, h_1, drops) ==
  IF i > Len(m.layers)
  THEN [status |-> "ok", output |-> input, h |-> h_1, c |-> <<>>, drops |-> drops]
  ELSE IF i > Len(h_0)
  THEN [status |-> "error", output |-> 0, h |-> <<>>, c |-> <<>>, drops |-> drops]
  ELSE LET h_1_i == GRUCell(m.layers[i], input, h_0[i])
       IN IF i # m.num_layers
          THEN StackedGRU_loop(m, i + 1, Dropout(h_1_i, draws, i), h_0, draws,
                               Append(h_1, h_1_i), Append(drops, i))
          ELSE StackedGRU_loop(m, i + 1, h_1_i, h_0, draws,
                               Append(h_1, h_1_i), drops)

StackedGRU_forward(m, input, hidden, draws) ==
  StackedGRU_loop(m, 1, input, hidden.h, draws, <<>>, <<>>)

\* mutant: the state keeps each layer's hidden vector after dropout
RECURSIVE StackedLSTM_loop_keeps_dropped(_, _, _, _, _, _, _, _, _)
StackedLSTM_loop_keeps_dropped(m, i, input, h_0, c_0, draws, h_1, c_1, drops) ==
  IF i > Len(m.layers)
  THEN [status |-> "ok", output |-> input, h |-> h_1, c |-> c_1, drops |-> drops]
  ELSE IF i > Len(h_0) \/ i > Len(c_0)
  THEN [status |-> "error", output |-> 0, h |-> <<>>, c |-> <<>>, drops |-> drops]
  ELSE LET hc == LSTMCell(m.layers[i], input, [h |-> h_0[i], c |-> c_0[i]])
           nxt == IF i # m.num_layers THEN Dropout(hc.h, draws, i) ELSE hc.h
       IN StackedLSTM_loop_keeps_dropped(m, i + 1, nxt, h_0, c_0, draws,
                                         Append(h_1, nxt), Append(c_1, hc.c),
                                         IF i # m.num_layers THEN Append(drops, i) ELSE drops)

\* StackedLSTM.forward, the loop from layer i (numbered from 1) on
RECURSIVE StackedLSTM_loop(_, _, _, _, _, _, _, _, _)
StackedLSTM_loop(m, i, input, h_0, c_0, draws, h_1, c_1, drops) ==
  IF i > Len(m.layers)
  THEN [status |-> "ok", output |-> input, h |-> h_1, c |-> c_1, drops |-> drops]
  ELSE IF i > Len(h_0) \/ i > Len(c_0)
  THEN [status |-> "error", output |-> 0, h |-> <<>>, c |-> <<>>, drops |-> drops]
  ELSE LET hc == LSTMCell(m.layers[i], input, [h |-> h_0[i], c |-> c_0[i]])
       IN IF i # m.num_layers
          THEN StackedLSTM_loop(m, i + 1, Dropout(hc.h, draws, i), h_0, c_0, draws,
                                Append(h_1, hc.h), Append(c_1, hc.c), Append(drops, i))
          ELSE StackedLSTM_loop(m, i + 1, hc.h, h_0, c_0, draws,
                                Append(h_1, hc.h), Append(c_1, hc.c), drops)

StackedLSTM_forward(m, input, hidden, draws) ==
  StackedLSTM_loop(m, 1, input, hidden.h, hidden.c, draws, <<>>, <<>>, <<>>)

\* ---- decoder ----

\* the attention modules of the models package: attend(output, context)
\* gives the attended output and one weight per context position
attend(kind, output, context) ==
  [output |-> (output + 2 * SumSeq(context) + Len(kind)) % Modulus,
   weights |-> Tup([i \in 1..Len(context) |-> (output + context[i]) % Modulus])]

\* self.linear: one score per target token
compute_score(hiddens) == Tup([v \in 1..Cardinality(Tokens) |-> (v * hiddens + v) % Modulus])

\* rnn_decoder.forward(input, state, conv); cell records what self.rnn returned
rnn_decoder_forward(m, input, state, conv, draws) ==
  LET embs == embedding(input)
      r == IF m.rnn = "gru" THEN StackedGRU_forward(m, embs, state, draws)
           ELSE StackedLSTM_forward(m, embs, state, draws)
      failed == [status |-> "error", output |-> <<>>, state |-> NoState,
                 attn_weights |-> NoWeights, cell |-> r]
  IN IF r.status # "ok" THEN failed
     ELSE IF m.attention = "unset" THEN failed
     ELSE IF m.attention # "NoneObject"
     THEN LET a == IF m.config.attention = "luong_gate"
                   THEN attend(m.attention, r.output, conv)
                   ELSE attend(m.attention, r.output, <<embs>>)
          IN [status |-> "ok", output |-> compute_score(a.output),
              state |-> [h |-> r.h, c |-> r.c],
              attn_weights |-> [none |-> FALSE, w |-> a.weights], cell |-> r]
     ELSE [status |-> "ok", output |-> compute_score(r.output),
           state |-> [h |-> r.h, c |-> r.c],
           attn_weights |-> NoWeights, cell |-> r]

\* mutant: the use_attention argument is ignored
decoder_attention_by_config(cfg) ==
  IF cfg.attention = "None" THEN "NoneObject"
  ELSE IF cfg.attention \in {"bahdanau", "luong", "luong_gate"} THEN cfg.attention
  ELSE "unset"

\* the value rnn_decoder.__init__ leaves in self.attention
decoder_attention(cfg) ==
  IF ~cfg.use_attention \/ cfg.attention = "None" THEN "NoneObject"
  ELSE IF cfg.attention = "bahdanau" THEN "bahdanau"
  ELSE IF cfg.attention = "luong" THEN "luong"
  ELSE IF cfg.attention = "luong_gate" THEN "luong_gate"
  ELSE "unset"

\* ---- decoder state machine ----
StateLayerCounts == {1, 2, 3, 4}
ConvContexts == {<<1>>, <<2, 3>>}

\* a running state with n layer entries
StateOf(cell, n) ==
  [h |-> Tup([i \in 1..n |-> i % Modulus]),
   c |-> IF cell = "gru" THEN <<>> ELSE Tup([i \in 1..n |-> (2 * i) % Modulus])]

EncIdle ==
  /\ config = [cell |-> "none", bidirectional |-> FALSE,
               enc_num_layers |-> 0, dec_num_layers |-> 0]
  /\ inputs = <<>>
  /\ lengths = <<>>
  /\ enc_pc = "idle"
  /\ enc_module = NoEncModule
  /\ enc_out = NoEncOut

InitDecoder ==
  /\ dec_config \in [cell : Cells, num_layers : DecLayerCounts,
                     attention : AttentionModes, use_attention : BOOLEAN]
  /\ \E n \in StateLayerCounts : dec_state = StateOf(dec_config.cell, n)
  /\ dec_conv \in ConvContexts
  /\ dec_pc = "start"
  /\ dec_module = NoDecModule
  /\ dec_call = NoCall
  /\ dec_out = NoDecOut
  /\ dec_steps = 0
  /\ EncIdle

\* rnn_decoder.__init__ (with the StackedGRU / StackedLSTM it builds)
DecoderConstruct ==
  /\ dec_pc = "start"
  /\ dec_module' = [rnn |-> IF dec_config.cell = "gru" THEN "gru" ELSE "lstm",
                    num_layers |-> dec_config.num_layers,
                    layers |-> Tup([i \in 1..dec_config.num_layers |-> i]),
                    attention |-> decoder_attention(dec_config),
                    config |-> dec_config]
  /\ dec_pc' = "constructed"
  /\ UNCHANGED <<dec_config, dec_state, dec_conv, dec_call, dec_out, dec_steps>>
  /\ UNCHANGED enc_vars

\* one call of rnn_decoder.forward by the driver, which threads the returned
\* state into the next call
DecoderForward ==
  /\ dec_pc \in {"constructed", "stepped"}
  /\ dec_steps < MaxSteps
  /\ \E tok \in Tokens : \E draws \in [1..(dec_module.num_layers - 1) -> BOOLEAN] :
       /\ dec_call' = [input |-> tok, state |-> dec_state, conv |-> dec_conv,
                       draws |-> draws]
       /\ dec_out' = rnn_decoder_forward(dec_module, tok, dec_state, dec_conv, draws)
  /\ dec_state' = IF dec_out'.status = "ok" THEN dec_out'.state ELSE dec_state
  /\ dec_pc' = IF dec_out'.status = "ok" THEN "stepped" ELSE "error"
  /\ dec_steps' = dec_steps + 1
  /\ UNCHANGED <<dec_config, dec_module, dec_conv>>
  /\ UNCHANGED enc_vars

NextDecoder == DecoderConstruct \/ DecoderForward

SpecDecoder == InitDecoder /\ [][NextDecoder]_vars

\* ---- claims about the encoder ----
Encoded == enc_pc = "encoded"

\* C1: the conv_context returned by rnn_encoder.forward has the time-length T
\* of the padded input (the dilated refinement preserves sequence length).
C1_ConvKeepsTimeLength ==
  Encoded => Size(enc_out.conv, "time") = Len(inputs)

\* the state the recurrence reaches for example b after exactly lengths[b]
\* steps: the recurrent network run on that example's true positions alone
StateAfterTrueLength(b) ==
  reduce_state(config,
               rnn(enc_module, Tup([t \in 1..lengths[b] |-> <<embedding(inputs[t][b])>>])))

\* C2: the final state returned for every example is the state reached after
\* exactly its true length n of recurrence steps; padding positions n+1..T
\* cause no state update.
C2_StateAfterTrueLengthSteps ==
  Encoded =>
    \A b \in 1..BatchSize :
      /\ \A j \in 1..Len(enc_out.state.h) :
            enc_out.state.h[j][b] = StateAfterTrueLength(b).h[j][1]
      /\ \A j \in 1..Len(enc_out.state.c) :
            enc_out.state.c[j][b] = StateAfterTrueLength(b).c[j][1]

\* a batch equal to inputs at every true position, with token p[b] at every
\* padding position of example b
PaddingVariant(p) ==
  Mat([t \in 1..Len(inputs) |-> [b \in 1..BatchSize |->
     IF t <= lengths[b] THEN inputs[t][b] ELSE p[b]]])

SameAtTruePositions(r1, r2) ==
  /\ r1.status = r2.status
  /\ r1.state = r2.state
  /\ r1.status = "ok" =>
       \A b \in 1..BatchSize : \A t \in 1..lengths[b] :
          r1.outputs.data[t][b] = r2.outputs.data[t][b]

\* C3: two batches with the same lengths that differ only in the token ids
\* at padding positions give identical outputs at true-length positions and
\* an identical final state for every example.
C3_PaddingContentIrrelevant ==
  enc_pc \in {"encoded", "error"} =>
    \A p \in [1..BatchSize -> Tokens] :
      SameAtTruePositions(enc_out,
                          rnn_encoder_forward(enc_module, PaddingVariant(p), lengths))

C3_Witness ==
  /\ Encoded
  /\ lengths[BatchSize] < lengths[1]
  /\ \E p \in [1..BatchSize -> Tokens] : PaddingVariant(p) # inputs

\* the recurrent network's final state for the call that produced enc_out
FinalState == rnn(enc_module, encoder_embeds(inputs, lengths))

\* C4 (as claimed): the returned state has exactly dec_num_layers entries
\* along its layer axis, for LSTM in both components.
C4_StateHasDecLayers ==
  Encoded =>
    /\ Len(enc_out.state.h) = config.dec_num_layers
    /\ config.cell = "lstm" => Len(enc_out.state.c) = config.dec_num_layers

\* C4 (amended): GRU keeps the first dec_num_layers entries of the final
\* state and so returns exactly dec_num_layers of them; LSTM keeps every
\* other entry (stride 2) of both the hidden and the cell component and so
\* returns ceil(enc_num_layers * num_directions / 2) entries of each.
C4_StateReduction ==
  Encoded =>
    LET dirs == IF config.bidirectional THEN 2 ELSE 1
        n == config.enc_num_layers * dirs
    IN /\ Len(FinalState.h_n) = n
       /\ config.cell = "gru" =>
            /\ Len(enc_out.state.h) = config.dec_num_layers
            /\ \A j \in 1..config.dec_num_layers :
                  enc_out.state.h[j] = FinalState.h_n[j]
       /\ config.cell = "lstm" =>
            /\ Len(enc_out.state.h) = (n + 1) \div 2
            /\ Len(enc_out.state.c) = (n + 1) \div 2
            /\ \A j \in 1..((n + 1) \div 2) :
                  /\ enc_out.state.h[j] = FinalState.h_n[2 * j - 1]
                  /\ enc_out.state.c[j] = FinalState.c_n[2 * j - 1]

C4_Witness ==
  /\ Encoded
  /\ config.cell = "lstm"
  /\ Len(enc_out.state.h) # config.dec_num_layers

\* C10: conv_context has the axis order of outputs, (time, batch, hidden):
\* the batch dimension is on the second axis, not the first.
C10_ConvAxesAsOutputs ==
  Encoded =>
    /\ AxisNames(enc_out.outputs) = <<"time", "batch", "hidden">>
    /\ AxisNames(enc_out.conv) = AxisNames(enc_out.outputs)

\* ---- claims about the decoder and the stacked cells ----
Stepped == dec_pc = "stepped"
StepRan == dec_pc \in {"stepped", "error"} /\ dec_out.cell.status = "ok"

\* C5: with use_attention true and config.attention outside the recognized
\* set, construction fails; it never completes with attention unset.
C5_UnrecognizedAttentionFailsAtConstruction ==
  (dec_config.use_attention /\ dec_config.attention \notin RecognizedAttention)
    => dec_pc \in {"start", "construct_failed"}

\* C6: a step given a state whose number of layer entries differs from
\* num_layers fails; a successful step returns as many layer entries as the
\* state it was given.
C6_StateCountMismatchFails ==
  StepRan =>
    /\ Len(dec_call.state.h) = dec_module.num_layers
    /\ Len(dec_out.cell.h) = Len(dec_call.state.h)

\* C7: in one step dropout is applied exactly num_layers-1 times, once after
\* each layer but the last, and the returned output is the last layer's new
\* hidden vector with no dropout applied.
C7_DropoutBetweenLayersOnly ==
  StepRan =>
    /\ dec_out.cell.drops = Tup([i \in 1..(dec_module.num_layers - 1) |-> i])
    /\ dec_out.cell.output = dec_out.cell.h[dec_module.num_layers]

C7_Witness ==
  /\ StepRan
  /\ dec_module.num_layers = 3
  /\ \E i \in DOMAIN dec_call.draws : ~dec_call.draws[i]
  /\ dec_out.cell.output # 0

\* C8: with no attention every forward call returns the no-attention
\* sentinel as weights, and scores and updated state are the same for any
\* two conv arguments given the same input token and running state.
C8_NoAttentionIgnoresConv ==
  (dec_pc \in {"stepped", "error"}
     /\ (~dec_config.use_attention \/ dec_config.attention = "None")) =>
    /\ dec_out.status = "ok" => dec_out.attn_weights = NoWeights
    /\ \A conv2 \in ConvContexts :
         LET r2 == rnn_decoder_forward(dec_module, dec_call.input, dec_call.state,
                                       conv2, dec_call.draws)
         IN /\ r2.status = dec_out.status
            /\ r2.output = dec_out.output
            /\ r2.state = dec_out.state

C8_Witness ==
  /\ Stepped
  /\ dec_config.use_attention
  /\ dec_config.attention = "None"
  /\ dec_steps = 2
  /\ \E conv2 \in ConvContexts : conv2 # dec_call.conv

\* what layer i computes in a step from input x0 and state st0: layer 1 takes
\* the step input, layer i > 1 the previous layer's new hidden vector after
\* dropout; each takes its own state entry
LayerResult(kind, x0, st0, draws, N) ==
  LET res[i \in 1..N] ==
        CellStep(kind, i,
                 IF i = 1 THEN x0 ELSE Dropout(res[i - 1].h, draws, i - 1),
                 [h |-> st0.h[i], c |-> IF kind = "gru" THEN 0 ELSE st0.c[i]])
  IN res

\* C9: one step advances every layer exactly once in order; it returns
\* exactly N state entries, entry i being layer i's new hidden vector before
\* dropout (and, for LSTM, its new cell vector), and the output equals the
\* last entry of the returned hidden state.
C9_StepAdvancesEveryLayerOnce ==
  StepRan =>
    LET N == dec_module.num_layers
        res == LayerResult(dec_module.rnn, embedding(dec_call.input),
                           dec_call.state, dec_call.draws, N)
    IN /\ Len(dec_out.cell.h) = N
       /\ \A i \in 1..N : dec_out.cell.h[i] = res[i].h
       /\ dec_module.rnn = "lstm" =>
            /\ Len(dec_out.cell.c) = N
            /\ \A i \in 1..N : dec_out.cell.c[i] = res[i].c
       /\ dec_out.cell.output = dec_out.cell.h[N]

C9_Witness ==
  /\ StepRan
  /\ dec_module.rnn = "lstm"
  /\ dec_module.num_layers = 3
  /\ dec_steps = 2

====
